---- MODULE Spec2Model ----
(***************************************************************************)
(* Section-tree editor: LessonView (the Section Store), SectionRenderer    *)
(* (Renderer, Context Injector, prop injection) and the tree helpers they  *)
(* share, over React elements modelled as records.                         *)
(*                                                                         *)
(* A React node is a record                                                *)
(*   type     the element type ("div", "p": host; "Fragment"; any other    *)
(*            name: a custom component; "#text", "#number": a leaf that    *)
(*            is not a React element)                                      *)
(*   key      element.key, a string or Null                                *)
(*   id       element.props.id, a string or Undefined                      *)
(*   props    the other own props, a function from prop names to values    *)
(*   children element.props.children as the sequence Children.forEach      *)
(*            visits                                                       *)
(*   arr      TRUE when props.children is an array, FALSE when it is a     *)
(*            single node or absent                                        *)
(*   text     the value of a leaf                                          *)
(***************************************************************************)
EXTENDS Integers, Sequences, FiniteSets, TLC

Null == "<null>"
Undefined == "<undefined>"

NoProps == <<>>

HostTypes == {"div", "p"}

Text(s) ==
  [type |-> "#text", key |-> Null, id |-> Undefined, props |-> NoProps,
   children |-> <<>>, arr |-> FALSE, text |-> s]

Number(s) ==
  [type |-> "#number", key |-> Null, id |-> Undefined, props |-> NoProps,
   children |-> <<>>, arr |-> FALSE, text |-> s]

\* createElement(type, {key, id, ...props}, child): props.children is the one child
El1(type, key, id, props, child) ==
  [type |-> type, key |-> key, id |-> id, props |-> props,
   children |-> <<child>>, arr |-> FALSE, text |-> ""]

\* createElement(type, {key, id, ...props}, c1, c2, ...): props.children is an array
ElN(type, key, id, props, kids) ==
  [type |-> type, key |-> key, id |-> id, props |-> props,
   children |-> kids, arr |-> TRUE, text |-> ""]

isValidElement(n) == n.type \notin {"#text", "#number"}

\* JavaScript truthiness of a string-or-null/undefined value
TruthyStr(s) == s # Null /\ s # Undefined /\ s # ""

\* JavaScript truthiness of element.props.children
TruthyChildren(e) ==
  IF e.arr THEN TRUE
  ELSE IF Len(e.children) = 0 THEN FALSE
  ELSE LET c == e.children[1] IN
       IF c.type = "#text" THEN c.text # ""
       ELSE IF c.type = "#number" THEN c.text # "0"
       ELSE TRUE

StartsWith(s, p) == Len(s) >= Len(p) /\ SubSeq(s, 1, Len(p)) = p

\* String.prototype.replace(pattern, "") with a string pattern: the first occurrence
RECURSIVE FirstIndexFrom(_, _, _)
FirstIndexFrom(s, p, i) ==
  IF i + Len(p) - 1 > Len(s) THEN 0
  ELSE IF SubSeq(s, i, i + Len(p) - 1) = p THEN i
  ELSE FirstIndexFrom(s, p, i + 1)

ReplaceFirst(s, p) ==
  LET i == FirstIndexFrom(s, p, 1) IN
  IF i = 0 THEN s
  ELSE SubSeq(s, 1, i - 1) \o SubSeq(s, i + Len(p), Len(s))

(***************************************************************************)
(* React primitives                                                        *)
(***************************************************************************)

\* cloneElement(element, config, children): key and id kept, config merged over
\* the props, props.children replaced by the third argument
cloneElement(element, config, kids, isArr) ==
  [element EXCEPT !.props = config @@ element.props,
                  !.children = kids, !.arr = isArr]

\* The key Children.map gives the i-th mapped child
MappedKey(child, i) ==
  IF child.key # Null THEN ".$" \o child.key ELSE "." \o ToString(i - 1)

\* Children.map re-keys every element it returns and leaves other nodes alone
ReKey(orig, mapped, i) ==
  IF isValidElement(mapped) THEN [mapped EXCEPT !.key = MappedKey(orig, i)]
  ELSE mapped

(***************************************************************************)
(* Tree Traversal Engine                                                   *)
(***************************************************************************)

\* a search that looks at the element and its direct children only
hasSectionIdShallow(element, targetId) ==
  IF ~isValidElement(element) THEN FALSE
  ELSE IF element.id = targetId THEN TRUE
  ELSE \E i \in 1..Len(element.children) :
         isValidElement(element.children[i]) /\ element.children[i].id = targetId

\* a search that follows the first child only
RECURSIVE hasSectionIdFirstChild(_, _)
hasSectionIdFirstChild(element, targetId) ==
  IF ~isValidElement(element) THEN FALSE
  ELSE IF element.id = targetId THEN TRUE
  ELSE Len(element.children) > 0
         /\ hasSectionIdFirstChild(element.children[1], targetId)

RECURSIVE hasSectionId(_, _)
hasSectionId(element, targetId) ==
  IF ~isValidElement(element) THEN FALSE
  ELSE IF element.id = targetId THEN TRUE
  ELSE \E i \in 1..Len(element.children) :
         hasSectionId(element.children[i], targetId)

\* the children that are elements
ElementsOnly(kids) == SelectSeq(kids, isValidElement)

\* a rebuild that keeps only the element children of the nodes it maps
RECURSIVE replaceSectionContentDropText(_, _, _)
replaceSectionContentDropText(element, targetId, newContent) ==
  IF ~isValidElement(element) THEN element
  ELSE IF element.id = targetId
       THEN cloneElement(element, NoProps, <<newContent>>, FALSE)
  ELSE IF TruthyChildren(element)
       THEN cloneElement(element, NoProps,
              ElementsOnly(
                [i \in 1..Len(element.children) |->
                   ReKey(element.children[i],
                         replaceSectionContentDropText(element.children[i], targetId, newContent),
                         i)]),
              TRUE)
  ELSE element

\* a rebuild that descends into the first child only
RECURSIVE replaceSectionContentFirstChild(_, _, _)
replaceSectionContentFirstChild(element, targetId, newContent) ==
  IF ~isValidElement(element) THEN element
  ELSE IF element.id = targetId
       THEN cloneElement(element, NoProps, <<newContent>>, FALSE)
  ELSE IF TruthyChildren(element)
       THEN cloneElement(element, NoProps,
              <<ReKey(element.children[1],
                      replaceSectionContentFirstChild(element.children[1], targetId, newContent),
                      1)>>,
              TRUE)
  ELSE element

RECURSIVE replaceSectionContent(_, _, _)
replaceSectionContent(element, targetId, newContent) ==
  IF ~isValidElement(element) THEN element
  ELSE IF element.id = targetId
       THEN cloneElement(element, NoProps, <<newContent>>, FALSE)
  ELSE IF TruthyChildren(element)
       THEN cloneElement(element, NoProps,
              [i \in 1..Len(element.children) |->
                 ReKey(element.children[i],
                       replaceSectionContent(element.children[i], targetId, newContent),
                       i)],
              TRUE)
  ELSE element

RECURSIVE getSectionIdFromElement(_)
getSectionIdFromElement(element) ==
  IF ~isValidElement(element) THEN Undefined
  ELSE IF TruthyStr(element.id) THEN element.id
  ELSE IF ~TruthyChildren(element) THEN Undefined
  ELSE LET found == [i \in 1..Len(element.children) |->
                       IF isValidElement(element.children[i])
                       THEN getSectionIdFromElement(element.children[i])
                       ELSE Undefined]
           hits == {i \in 1..Len(element.children) : TruthyStr(found[i])}
       IN IF hits = {} THEN Undefined
          ELSE found[CHOOSE i \in hits : \A j \in hits : i <= j]

\* The capability bundle spread into a clone: every key of {...props} is set
InjectedKeys == {"isPreview", "onEditSection", "onAddSection"}

isHostComponent(element) == element.type \in HostTypes
isFragment(element) == element.type = "Fragment"
shouldInjectProps(element) == ~isHostComponent(element) /\ ~isFragment(element)

RECURSIVE deepCloneWithProps(_, _)
deepCloneWithProps(element, props) ==
  IF ~isValidElement(element) THEN element
  ELSE cloneElement(element,
         IF shouldInjectProps(element) THEN props ELSE NoProps,
         IF TruthyChildren(element)
         THEN [i \in 1..Len(element.children) |->
                 ReKey(element.children[i],
                       deepCloneWithProps(element.children[i], props), i)]
         ELSE <<>>,
         TruthyChildren(element))

(***************************************************************************)
(* Content the loader can supply (src/data/sections.tsx and the layouts    *)
(* its header documents)                                                   *)
(***************************************************************************)

EditableText(as, s) == El1("EditableText", Null, Undefined, [as |-> as], Text(s))

\* <FullWidthLayout key=.. maxWidth="xl"><Section id=..>two children</Section></..>
DemoSection ==
  El1("FullWidthLayout", "inline-editing-demo", Undefined, [maxWidth |-> "xl"],
      ElN("Section", Null, "inline-editing-demo", NoProps,
          <<EditableText("h2", "Inline Editing Demo"), EditableText("p", "Physics")>>))

\* a section persisted from an earlier Add-Section-After
SavedSection ==
  El1("FullWidthLayout", "section-42", Undefined, [maxWidth |-> "xl"],
      El1("Section", Null, "section-42", NoProps, EditableText("p", "first")))

\* ids nested one and three levels below the top-level element, a Fragment,
\* host elements, and a section whose only child is the number 0
SplitSection ==
  ElN("SplitLayout", "layout-split", Undefined, [ratio |-> "1:1"],
      <<El1("div", Null, Undefined, [className |-> "col"],
            El1("Fragment", Null, Undefined, NoProps,
                El1("Section", Null, "left", NoProps,
                    El1("p", "lead", Undefined, NoProps, Text("left text"))))),
        El1("Section", Null, "right", NoProps, Number("0"))>>)

\* a wrapper keyed "layout-..." around content that exposes no id
KeyedNoId ==
  El1("FullWidthLayout", "layout-section-7", Undefined, [maxWidth |-> "xl"],
      El1("div", Null, Undefined, NoProps, Text("plain")))

\* a top-level Section carrying its own id, with no key
BareSection == El1("Section", Null, "bare", NoProps, Text("bare text"))

\* a top-level host element with neither key nor id
PlainDiv == El1("div", Null, Undefined, NoProps, Text("no id"))

LoaderLists ==
  { <<DemoSection, SavedSection>>,
    <<SplitSection, KeyedNoId, BareSection>>,
    <<PlainDiv, DemoSection>> }

\* what loadSections can resolve to: an array of elements, or something else
LoaderResults ==
  {[isArray |-> TRUE, value |-> l] : l \in LoaderLists}
    \cup {[isArray |-> FALSE, value |-> <<>>]}

(***************************************************************************)
(* Bounds of the model                                                     *)
(***************************************************************************)

\* Store transitions and watcher pushes in one run
MaxOps == 3
\* milliseconds the clock may advance
MaxTicks == 1

Texts == {"hello"}

\* an id no loaded or minted node carries
AbsentId == "ghost"

\* Date.now() at mount
StartClock == 43

(***************************************************************************)
(* State                                                                   *)
(***************************************************************************)

VARIABLES
  initialSections,  \* useState: the Store's top-level list, all queued updates applied
  loadingSections,  \* useState: the loading flag
  rendered,         \* initialSections as closed over by the handlers of the last render
  renderedLoading,  \* loadingSections as of the last render
  pc,               \* the async load: "awaiting" loadSections, or "done"
  cancelled,        \* the effect's cancellation flag
  cleanup,          \* the effect's cleanup variable: "null" or "watcher"
  cleanupCalls,     \* times the watcher's teardown function was invoked
  dev,              \* import.meta.env.DEV
  editing,          \* useOptionalEditing() returned a context
  clock,            \* Date.now()
  posted,           \* messages handed to window.parent.postMessage, in order
  journal,          \* records handed to editing.addStructureEdit, in order
  warnings,         \* console.warn calls, in order
  nops,             \* transitions taken so far
  lastOp,           \* the last transition and its inputs
  prevSections,     \* initialSections before the last transition
  prevRendered,     \* rendered before the last transition
  injPc,            \* the injection under test: "ready" or "done"
  injNode,          \* the node handed to deepCloneWithProps
  injProps,         \* the capability bundle handed to deepCloneWithProps
  injOut            \* what deepCloneWithProps returned

vars ==
  <<initialSections, loadingSections, rendered, renderedLoading, pc, cancelled,
    cleanup, cleanupCalls, dev, editing, clock, posted, journal, warnings, nops,
    lastOp, prevSections, prevRendered, injPc, injNode, injProps, injOut>>

inj == <<injPc, injNode, injProps, injOut>>

NoOp == [op |-> "none", id |-> "", text |-> "", list |-> <<>>]
Op(name, id, text, list) == [op |-> name, id |-> id, text |-> text, list |-> list]

StoreInit ==
  /\ initialSections = <<>>
  /\ loadingSections = TRUE
  /\ rendered = <<>>
  /\ renderedLoading = TRUE
  /\ pc = "awaiting"
  /\ cancelled = FALSE
  /\ cleanup = "null"
  /\ cleanupCalls = 0
  /\ dev \in BOOLEAN
  /\ editing \in BOOLEAN
  /\ clock = StartClock
  /\ posted = <<>>
  /\ journal = <<>>
  /\ warnings = <<>>
  /\ nops = 0
  /\ lastOp = NoOp
  /\ prevSections = <<>>
  /\ prevRendered = <<>>

Init ==
  /\ StoreInit
  /\ injPc = "done"
  /\ injNode = Text("")
  /\ injProps = NoProps
  /\ injOut = Text("")

Record(op) ==
  /\ lastOp' = op
  /\ prevSections' = initialSections
  /\ prevRendered' = rendered
  /\ nops' = nops + 1

\* The handlers exist once LessonView has rendered SectionRenderer
HandlersMounted == ~cancelled /\ ~renderedLoading /\ Len(rendered) > 0

RECURSIVE IdsOfNode(_)
IdsOfNode(n) ==
  (IF isValidElement(n) /\ n.id # Undefined THEN {n.id} ELSE {})
    \cup UNION {IdsOfNode(n.children[i]) : i \in 1..Len(n.children)}

IdsOfList(list) == UNION {IdsOfNode(list[i]) : i \in 1..Len(list)}

\* ids a caller can hand to a handler: those on screen, and one that is nowhere
TargetIds == IdsOfList(rendered) \cup {AbsentId}

(***************************************************************************)
(* LessonView: the load/watch effect                                       *)
(***************************************************************************)

\* Array.isArray(secs) ? secs : []
LoadedList(secs) == IF secs.isArray THEN secs.value ELSE <<>>

\* the continuation without the test of the cancellation flag
LoadResumeUnchecked(secs) ==
  /\ pc = "awaiting"
  /\ pc' = "done"
  /\ initialSections' = LoadedList(secs)
  /\ loadingSections' = FALSE
  /\ cleanup' = IF dev THEN "watcher" ELSE cleanup
  /\ Record(Op("load", "", "", LoadedList(secs)))
  /\ UNCHANGED <<rendered, renderedLoading, cancelled, cleanupCalls, dev, editing,
                 clock, posted, journal, warnings, inj>>

\* the continuation after `await loadSections(...)`
LoadResume(secs) ==
  /\ pc = "awaiting"
  /\ pc' = "done"
  /\ IF cancelled
     THEN UNCHANGED <<initialSections, loadingSections, cleanup>>
     ELSE /\ initialSections' = LoadedList(secs)
          /\ loadingSections' = FALSE
          /\ cleanup' = IF dev THEN "watcher" ELSE cleanup
  /\ Record(Op("load", "", "", LoadedList(secs)))
  /\ UNCHANGED <<rendered, renderedLoading, cancelled, cleanupCalls, dev, editing,
                 clock, posted, journal, warnings, inj>>

\* the callback keeping the local list and adding the pushed elements to it
WatcherPushMerge(updatedSections) ==
  /\ cleanup = "watcher"
  /\ nops < MaxOps
  /\ initialSections' = IF ~cancelled THEN initialSections \o updatedSections
                                      ELSE initialSections
  /\ Record(Op("push", "", "", updatedSections))
  /\ UNCHANGED <<loadingSections, rendered, renderedLoading, pc, cancelled, cleanup,
                 cleanupCalls, dev, editing, clock, posted, journal, warnings, inj>>

\* the callback without the test of the cancellation flag
WatcherPushUnchecked(updatedSections) ==
  /\ cleanup = "watcher"
  /\ nops < MaxOps
  /\ initialSections' = updatedSections
  /\ Record(Op("push", "", "", updatedSections))
  /\ UNCHANGED <<loadingSections, rendered, renderedLoading, pc, cancelled, cleanup,
                 cleanupCalls, dev, editing, clock, posted, journal, warnings, inj>>

\* the watcher's callback; a subscription exists once createSectionsWatcher ran
WatcherPush(updatedSections) ==
  /\ cleanup = "watcher"
  /\ nops < MaxOps
  /\ initialSections' = IF ~cancelled THEN updatedSections ELSE initialSections
  /\ Record(Op("push", "", "", updatedSections))
  /\ UNCHANGED <<loadingSections, rendered, renderedLoading, pc, cancelled, cleanup,
                 cleanupCalls, dev, editing, clock, posted, journal, warnings, inj>>

\* the effect's cleanup function, run when the component is torn down
Teardown ==
  /\ ~cancelled
  /\ cancelled' = TRUE
  /\ cleanupCalls' = IF cleanup # "null" THEN cleanupCalls + 1 ELSE cleanupCalls
  /\ Record(Op("teardown", "", "", <<>>))
  /\ UNCHANGED <<initialSections, loadingSections, rendered, renderedLoading, pc,
                 cleanup, dev, editing, clock, posted, journal, warnings, inj>>

\* React re-renders the mounted component after state changed; the handlers of
\* this render close over the state it rendered
Render ==
  /\ ~cancelled
  /\ rendered # initialSections \/ renderedLoading # loadingSections
  /\ rendered' = initialSections
  /\ renderedLoading' = loadingSections
  /\ UNCHANGED <<initialSections, loadingSections, pc, cancelled, cleanup,
                 cleanupCalls, dev, editing, clock, posted, journal, warnings, nops,
                 lastOp, prevSections, prevRendered, inj>>

Tick ==
  /\ clock < StartClock + MaxTicks
  /\ clock' = clock + 1
  /\ UNCHANGED <<initialSections, loadingSections, rendered, renderedLoading, pc,
                 cancelled, cleanup, cleanupCalls, dev, editing, posted, journal,
                 warnings, nops, lastOp, prevSections, prevRendered, inj>>

(***************************************************************************)
(* LessonView: the Section Store's handlers                                *)
(***************************************************************************)

\* <p className="text-lg text-gray-800 leading-relaxed">{content}</p>
contentElement(content) ==
  El1("p", Null, Undefined, [className |-> "text-lg text-gray-800 leading-relaxed"],
      Text(content))

\* prevSections.map(section => replaceSectionContent(section, sectionId, <p>..</p>))
CommittedSections(prev, sectionId, content) ==
  [i \in 1..Len(prev) |->
     replaceSectionContent(prev[i], sectionId, contentElement(content))]

\* a commit that gives up before the list update when there is no editing context
handleCommitSectionJournalFirst(sectionId, content) ==
  /\ HandlersMounted
  /\ nops < MaxOps
  /\ IF editing
     THEN /\ initialSections' = CommittedSections(initialSections, sectionId, content)
          /\ journal' = Append(journal,
                          [action |-> "add", sectionId |-> sectionId, content |-> content])
          /\ UNCHANGED warnings
     ELSE /\ warnings' = Append(warnings, "Editing context not found")
          /\ UNCHANGED <<initialSections, journal>>
  /\ Record(Op("commit", sectionId, content, <<>>))
  /\ UNCHANGED <<loadingSections, pc, cancelled, cleanup,
                 cleanupCalls, dev, editing, clock, posted, inj>>

handleCommitSection(sectionId, content) ==
  /\ HandlersMounted
  /\ nops < MaxOps
  /\ initialSections' = CommittedSections(initialSections, sectionId, content)
  /\ IF editing
     THEN /\ journal' = Append(journal,
                          [action |-> "add", sectionId |-> sectionId, content |-> content])
          /\ UNCHANGED warnings
     ELSE /\ warnings' = Append(warnings, "Editing context not found")
          /\ UNCHANGED journal
  /\ Record(Op("commit", sectionId, content, <<>>))
  /\ UNCHANGED <<loadingSections, pc, cancelled, cleanup,
                 cleanupCalls, dev, editing, clock, posted, inj>>

\* initialSections.findIndex(section => hasSectionId(section, targetId)); 0 for -1
FindIndex(list, targetId) ==
  LET hits == {i \in 1..Len(list) : hasSectionId(list[i], targetId)} IN
  IF hits = {} THEN 0 ELSE CHOOSE i \in hits : \A j \in hits : i <= j

\* `section-${Date.now()}`
MintId(now) == "section-" \o ToString(now)

\* the placeholder: <FullWidthLayout key=`layout-${newId}` maxWidth="xl">
\*   <Section id={newId}><SectionInput id={newId} onCommit=.. placeholder=.. /></Section>
newSection(newId) ==
  El1("FullWidthLayout", "layout-" \o newId, Undefined, [maxWidth |-> "xl"],
      El1("Section", Null, newId, NoProps,
          [type |-> "SectionInput", key |-> Null, id |-> newId,
           props |-> [onCommit |-> "handleCommitSection",
                      placeholder |-> "Type '/' for commands"],
           children |-> <<>>, arr |-> FALSE, text |-> ""]))

\* [...list.slice(0, index + 1), newSection, ...list.slice(index + 1)]
InsertAfter(list, index, element) ==
  SubSeq(list, 1, index) \o <<element>> \o SubSeq(list, index + 1, Len(list))

handleAddSection(targetId) ==
  /\ HandlersMounted
  /\ nops < MaxOps
  /\ LET index == FindIndex(rendered, targetId) IN
     IF index # 0
     THEN /\ initialSections' = InsertAfter(rendered, index, newSection(MintId(clock)))
          /\ UNCHANGED warnings
          /\ Record(Op("add", targetId, MintId(clock), <<>>))
     ELSE /\ warnings' = Append(warnings, "Could not find section with id:")
          /\ UNCHANGED initialSections
          /\ Record(Op("add-miss", targetId, "", <<>>))
  /\ UNCHANGED <<loadingSections, pc, cancelled, cleanup,
                 cleanupCalls, dev, editing, clock, posted, journal, inj>>

\* the inner id tried before the key
ReportedIdInnerFirst(s) ==
  LET id == getSectionIdFromElement(s) IN
  IF TruthyStr(id) THEN id
  ELSE IF TruthyStr(s.key) /\ StartsWith(s.key, "layout-")
  THEN ReplaceFirst(s.key, "layout-")
  ELSE "unknown"

\* the id handleReorder reports for one top-level element
ReportedId(s) ==
  IF TruthyStr(s.key) /\ StartsWith(s.key, "layout-")
  THEN ReplaceFirst(s.key, "layout-")
  ELSE LET id == getSectionIdFromElement(s) IN
       IF TruthyStr(id) THEN id ELSE "unknown"

SectionIds(newSections) == [i \in 1..Len(newSections) |-> ReportedId(newSections[i])]

\* what Reorder.Group hands to onReorder: the rendered values with two neighbours swapped
Swapped(list, i) ==
  [j \in 1..Len(list) |->
     IF j = i THEN list[i + 1] ELSE IF j = i + 1 THEN list[i] ELSE list[j]]

handleReorder(newSections) ==
  /\ HandlersMounted
  /\ nops < MaxOps
  /\ initialSections' = newSections
  /\ posted' = Append(posted,
                 [type |-> "commit-section-reorder", sectionIds |-> SectionIds(newSections)])
  /\ Record(Op("reorder", "", "", newSections))
  /\ UNCHANGED <<loadingSections, rendered, renderedLoading, pc, cancelled, cleanup,
                 cleanupCalls, dev, editing, clock, journal, warnings, inj>>

\* a delete that tells the host only when it removed something
handleDeleteSectionQuiet(sectionId) ==
  /\ HandlersMounted
  /\ nops < MaxOps
  /\ initialSections' =
       SelectSeq(initialSections, LAMBDA section : ~hasSectionId(section, sectionId))
  /\ posted' = IF initialSections' # initialSections
               THEN Append(posted, [type |-> "commit-section-delete", sectionId |-> sectionId])
               ELSE posted
  /\ Record(Op("delete", sectionId, "", <<>>))
  /\ UNCHANGED <<loadingSections, pc, cancelled, cleanup,
                 cleanupCalls, dev, editing, clock, journal, warnings, inj>>

\* prev.filter(section => !hasSectionId(section, sectionId))
WithoutOwner(prev, sectionId) ==
  LET Keep(section) == ~hasSectionId(section, sectionId) IN SelectSeq(prev, Keep)

handleDeleteSection(sectionId) ==
  /\ HandlersMounted
  /\ nops < MaxOps
  /\ initialSections' = WithoutOwner(initialSections, sectionId)
  /\ posted' = Append(posted, [type |-> "commit-section-delete", sectionId |-> sectionId])
  /\ Record(Op("delete", sectionId, "", <<>>))
  /\ UNCHANGED <<loadingSections, pc, cancelled, cleanup,
                 cleanupCalls, dev, editing, clock, journal, warnings, inj>>

(***************************************************************************)
(* SectionRenderer: DraggableSection, one per element of the rendered list *)
(***************************************************************************)

\* section.props.id ||
\*   (section.props.children && isValidElement(section.props.children)
\*      ? section.props.children.props.id : undefined)
DraggableSectionId(section) ==
  IF TruthyStr(section.id) THEN section.id
  ELSE IF /\ TruthyChildren(section)
          /\ ~section.arr
          /\ isValidElement(section.children[1])
  THEN section.children[1].id
  ELSE Undefined

\* the context's onDelete without the test of the id
handleDeleteUnguarded(section) ==
  handleDeleteSection(DraggableSectionId(section))

\* the context's onDelete: if (sectionId && onDeleteSection) onDeleteSection(sectionId);
\* LessonView always supplies onDeleteSection
handleDelete(section) ==
  LET sectionId == DraggableSectionId(section) IN
  IF TruthyStr(sectionId)
  THEN handleDeleteSection(sectionId)
  ELSE /\ HandlersMounted
       /\ nops < MaxOps
       /\ Record(Op("onDelete-skip", "", "", <<section>>))
       /\ UNCHANGED <<initialSections, loadingSections, pc, cancelled, cleanup,
                      cleanupCalls, dev, editing, clock, posted, journal, warnings, inj>>

(***************************************************************************)
(* SectionInput: one per input placeholder in the rendered list            *)
(***************************************************************************)

\* characters String.prototype.trim removes, as far as the inputs hold them
Whitespace == {" ", "\t"}

RECURSIVE TrimStart(_)
TrimStart(s) ==
  IF Len(s) > 0 /\ SubSeq(s, 1, 1) \in Whitespace
  THEN TrimStart(SubSeq(s, 2, Len(s)))
  ELSE s

RECURSIVE TrimEnd(_)
TrimEnd(s) ==
  IF Len(s) > 0 /\ SubSeq(s, Len(s), Len(s)) \in Whitespace
  THEN TrimEnd(SubSeq(s, 1, Len(s) - 1))
  ELSE s

\* value.trim()
Trim(s) == TrimEnd(TrimStart(s))

\* e.key and the textarea's value when a key goes down
Keys == {"Enter", "a"}
InputValues == {"", " \t", " hello "}

\* the SectionInput elements of a tree
RECURSIVE SectionInputsOf(_)
SectionInputsOf(n) ==
  (IF n.type = "SectionInput" THEN {n} ELSE {})
    \cup UNION {SectionInputsOf(n.children[i]) : i \in 1..Len(n.children)}

SectionInputsIn(list) == UNION {SectionInputsOf(list[i]) : i \in 1..Len(list)}

\* a key handler that commits whatever the textarea holds
handleKeyDownAnyValue(input, key, shiftKey, value) ==
  IF key = "Enter" /\ ~shiftKey
  THEN handleCommitSection(input.id, value)
  ELSE /\ HandlersMounted
       /\ nops < MaxOps
       /\ Record(Op("keydown-skip", input.id, value, <<>>))
       /\ UNCHANGED <<initialSections, loadingSections, pc, cancelled, cleanup,
                      cleanupCalls, dev, editing, clock, posted, journal, warnings, inj>>

\* if (e.key === "Enter" && !e.shiftKey) { e.preventDefault();
\*   if (value.trim()) onCommit(id, value); }   with onCommit = handleCommitSection
handleKeyDown(input, key, shiftKey, value) ==
  IF key = "Enter" /\ ~shiftKey /\ TruthyStr(Trim(value))
  THEN handleCommitSection(input.id, value)
  ELSE /\ HandlersMounted
       /\ nops < MaxOps
       /\ Record(Op("keydown-skip", input.id, value, <<>>))
       /\ UNCHANGED <<initialSections, loadingSections, pc, cancelled, cleanup,
                      cleanupCalls, dev, editing, clock, posted, journal, warnings, inj>>

\* The handler's updates are queued and the re-render comes later: until then
\* the handlers of the last render stay in use
RenderPending == UNCHANGED <<rendered, renderedLoading>>

\* The handler ran inside a React discrete event (a click, a key press): React
\* re-renders before the next event is handled
RenderFlushed ==
  /\ rendered' = initialSections'
  /\ renderedLoading' = loadingSections'

\* Handlers invoked at any moment between two renders
Next ==
  \/ \E secs \in LoaderResults : LoadResume(secs)
  \/ \E updatedSections \in LoaderLists : WatcherPush(updatedSections)
  \/ Teardown
  \/ Render
  \/ Tick
  \/ \E id \in TargetIds, content \in Texts :
       handleCommitSection(id, content) /\ RenderPending
  \/ \E id \in TargetIds : handleAddSection(id) /\ RenderPending
  \/ \E i \in 1..(Len(rendered) - 1) : handleReorder(Swapped(rendered, i))
  \/ \E id \in TargetIds : handleDeleteSection(id) /\ RenderPending
  \/ \E i \in 1..Len(rendered) : handleDelete(rendered[i]) /\ RenderPending
  \/ \E input \in SectionInputsIn(rendered), key \in Keys, shiftKey \in BOOLEAN,
          value \in InputValues :
       handleKeyDown(input, key, shiftKey, value) /\ RenderPending

Spec == Init /\ [][Next]_vars

\* Commit, add and delete invoked from discrete events only; the load, a watcher
\* push and a drag reorder update the state outside of them and leave the
\* re-render pending
NextEvents ==
  \/ \E secs \in LoaderResults : LoadResume(secs)
  \/ \E updatedSections \in LoaderLists : WatcherPush(updatedSections)
  \/ Teardown
  \/ Render
  \/ Tick
  \/ \E id \in TargetIds, content \in Texts :
       handleCommitSection(id, content) /\ RenderFlushed
  \/ \E id \in TargetIds : handleAddSection(id) /\ RenderFlushed
  \/ \E i \in 1..(Len(rendered) - 1) : handleReorder(Swapped(rendered, i))
  \/ \E id \in TargetIds : handleDeleteSection(id) /\ RenderFlushed
  \/ \E i \in 1..Len(rendered) : handleDelete(rendered[i]) /\ RenderFlushed
  \/ \E input \in SectionInputsIn(rendered), key \in Keys, shiftKey \in BOOLEAN,
          value \in InputValues :
       handleKeyDown(input, key, shiftKey, value) /\ RenderFlushed

SpecEvents == Init /\ [][NextEvents]_vars

(***************************************************************************)
(* SectionRenderer: prop injection applied to one node                     *)
(***************************************************************************)

RECURSIVE Subnodes(_)
Subnodes(n) == {n} \cup UNION {Subnodes(n.children[i]) : i \in 1..Len(n.children)}

\* the nodes the renderer can be handed: loaded content, a placeholder, and
\* everything nested in them
InjectInputs ==
  UNION {Subnodes(e) : e \in {DemoSection, SavedSection, SplitSection, KeyedNoId,
                               BareSection, PlainDiv, newSection(MintId(StartClock))}}

\* { isPreview, onEditSection, onAddSection }, each possibly undefined
CapBundles ==
  {[isPreview |-> p, onEditSection |-> e, onAddSection |-> a] :
     p \in {"true", "false"},
     e \in {"onEditSection", Undefined},
     a \in {"handleAddSection", Undefined}}

InitInject ==
  /\ StoreInit
  /\ injPc = "ready"
  /\ injNode \in InjectInputs
  /\ injProps \in CapBundles
  /\ injOut = Text("")

Inject ==
  /\ injPc = "ready"
  /\ injPc' = "done"
  /\ injOut' = deepCloneWithProps(injNode, injProps)
  /\ UNCHANGED <<injNode, injProps>>
  /\ UNCHANGED <<initialSections, loadingSections, rendered, renderedLoading, pc,
                 cancelled, cleanup, cleanupCalls, dev, editing, clock, posted,
                 journal, warnings, nops, lastOp, prevSections, prevRendered>>

NextInject == Inject

SpecInject == InitInject /\ [][NextInject]_vars

(***************************************************************************)
(* Vocabulary of the properties                                            *)
(***************************************************************************)

\* The structure of a node: its type, id, other props, leaf value and the
\* structures of its children in order. The key React keeps beside the props
\* and the single-child/array form of props.children are not part of it.
RECURSIVE Shape(_)
Shape(n) ==
  [type |-> n.type, id |-> n.id, props |-> n.props, text |-> n.text,
   kids |-> [i \in 1..Len(n.children) |-> Shape(n.children[i])]]

ShapeList(list) == [i \in 1..Len(list) |-> Shape(list[i])]
KeyList(list) == [i \in 1..Len(list) |-> list[i].key]

\* how many nodes of a tree carry the id
RECURSIVE SumSeq(_)
SumSeq(q) == IF q = <<>> THEN 0 ELSE Head(q) + SumSeq(Tail(q))

RECURSIVE Occurrences(_, _)
Occurrences(n, id) ==
  (IF isValidElement(n) /\ n.id = id THEN 1 ELSE 0)
    + SumSeq([i \in 1..Len(n.children) |-> Occurrences(n.children[i], id)])

OccurrencesIn(list, id) == SumSeq([i \in 1..Len(list) |-> Occurrences(list[i], id)])

\* a structure with the children of every node carrying the id cut away
RECURSIVE Pruned(_, _)
Pruned(sh, id) ==
  IF sh.id = id THEN [sh EXCEPT !.kids = <<>>]
  ELSE [sh EXCEPT !.kids = [i \in 1..Len(sh.kids) |-> Pruned(sh.kids[i], id)]]

\* the children of the nodes carrying the id, as a set of child sequences
RECURSIVE ContentOf(_, _)
ContentOf(sh, id) ==
  IF sh.id = id THEN {sh.kids}
  ELSE UNION {ContentOf(sh.kids[i], id) : i \in 1..Len(sh.kids)}

RECURSIVE PreOrderIds(_)
RECURSIVE ConcatAll(_)
ConcatAll(qs) == IF qs = <<>> THEN <<>> ELSE Head(qs) \o ConcatAll(Tail(qs))
PreOrderIds(n) ==
  (IF isValidElement(n) /\ n.id \notin {Undefined, ""} THEN <<n.id>> ELSE <<>>)
    \o ConcatAll([i \in 1..Len(n.children) |-> PreOrderIds(n.children[i])])

ParagraphOf(text) ==
  [type |-> "p", id |-> Undefined,
   props |-> [className |-> "text-lg text-gray-800 leading-relaxed"], text |-> "",
   kids |-> <<[type |-> "#text", id |-> Undefined, props |-> NoProps, text |-> text,
               kids |-> <<>>]>>]

(***************************************************************************)
(* C1: Delete(id) removes exactly the top-level elements that carry id at  *)
(* any depth (themselves or any descendant) and keeps every other          *)
(* top-level element unchanged and in its previous order.                  *)
(***************************************************************************)
C1_DeleteRemovesOwner ==
  lastOp.op = "delete" =>
    LET Stays(e) == lastOp.id \notin IdsOfNode(e)
    IN initialSections = SelectSeq(prevSections, Stays)

\* a delete of the id nested three levels below its top-level element
C1_Witness ==
  /\ lastOp.op = "delete"
  /\ lastOp.id = "left"
  /\ prevSections = <<KeyedNoId, SplitSection, BareSection>>
  /\ initialSections = <<KeyedNoId, BareSection>>

(***************************************************************************)
(* C2: Commit-Text(id, text) with id carried by exactly one node changes   *)
(* only that node's children, which become one paragraph holding text; the *)
(* list keeps its length, order and top-level keys, and everything outside *)
(* the target's children keeps its structure.                              *)
(***************************************************************************)
C2_ReplaceTargeted ==
  (lastOp.op = "commit" /\ OccurrencesIn(prevSections, lastOp.id) = 1) =>
    /\ Len(initialSections) = Len(prevSections)
    /\ KeyList(initialSections) = KeyList(prevSections)
    /\ \A i \in 1..Len(prevSections) :
         /\ Pruned(Shape(initialSections[i]), lastOp.id)
              = Pruned(Shape(prevSections[i]), lastOp.id)
         /\ ContentOf(Shape(initialSections[i]), lastOp.id) \subseteq
              {<<ParagraphOf(lastOp.text)>>}
    /\ \E i \in 1..Len(initialSections) :
         ContentOf(Shape(initialSections[i]), lastOp.id) # {}

\* a commit into a section nested below host elements, with a sibling section
C2_Witness ==
  /\ lastOp.op = "commit"
  /\ lastOp.id = "left"
  /\ OccurrencesIn(prevSections, "left") = 1
  /\ \E i \in 1..Len(initialSections) :
       /\ ContentOf(Shape(initialSections[i]), "left") = {<<ParagraphOf("hello")>>}
       /\ ContentOf(Shape(initialSections[i]), "right") # {}

(***************************************************************************)
(* C3: Commit-Text with an id carried by no node leaves the structure of   *)
(* every top-level element (ids, props, children in order at every depth), *)
(* the length and order of the list and its top-level keys unchanged.      *)
(***************************************************************************)
C3_ReplaceAbsentNoOp ==
  (lastOp.op = "commit" /\ lastOp.id \notin IdsOfList(prevSections)) =>
    /\ ShapeList(initialSections) = ShapeList(prevSections)
    /\ KeyList(initialSections) = KeyList(prevSections)

\* a commit of an absent id over a list with text leaves and nested sections
C3_Witness ==
  /\ lastOp.op = "commit"
  /\ lastOp.id = AbsentId
  /\ Len(prevSections) = 3
  /\ prevSections[1] = SplitSection
  /\ initialSections # prevSections

(***************************************************************************)
(* C4: Invariant I2: in every reachable state no id is carried by more     *)
(* than one node of the top-level list and its descendants.                *)
(***************************************************************************)
C4_UniqueIds ==
  \A id \in IdsOfList(initialSections) : OccurrencesIn(initialSections, id) = 1

\* how many Section nodes of a tree carry the id
RECURSIVE SectionOccurrences(_, _)
SectionOccurrences(n, id) ==
  (IF n.type = "Section" /\ n.id = id THEN 1 ELSE 0)
    + SumSeq([i \in 1..Len(n.children) |-> SectionOccurrences(n.children[i], id)])

\* C4: a state where one id is carried by two Section nodes
C4_SameMillisecond ==
  \E id \in IdsOfList(initialSections) :
    SumSeq([i \in 1..Len(initialSections) |->
              SectionOccurrences(initialSections[i], id)]) = 2

(***************************************************************************)
(* C5: Add-Section-After(id), when some top-level element of the Store's   *)
(* list contains id, yields that list with one new placeholder element     *)
(* (wrapper, Section with the new id, input placeholder) right after the   *)
(* first such element; the previous elements are unchanged and in order.   *)
(***************************************************************************)
RemoveAt(list, j) == SubSeq(list, 1, j - 1) \o SubSeq(list, j + 1, Len(list))

IsPlaceholder(e, newId) ==
  /\ e.type = "FullWidthLayout"
  /\ e.key = "layout-" \o newId
  /\ Len(e.children) = 1
  /\ e.children[1].type = "Section"
  /\ e.children[1].id = newId
  /\ Len(e.children[1].children) = 1
  /\ e.children[1].children[1].type = "SectionInput"

FirstOwner(list, id) ==
  CHOOSE i \in 1..Len(list) :
    /\ id \in IdsOfNode(list[i])
    /\ \A j \in 1..(i - 1) : id \notin IdsOfNode(list[j])

\* C5: after an add whose id the Store's list contains, the list is the previous
\* list with a placeholder inserted right after the first owner
C5_AddInsertsAfterOwner ==
  (lastOp.op \in {"add", "add-miss"} /\ lastOp.id \in IdsOfList(prevSections)) =>
    LET i == FirstOwner(prevSections, lastOp.id) IN
    /\ Len(initialSections) = Len(prevSections) + 1
    /\ IsPlaceholder(initialSections[i + 1], lastOp.text)
    /\ RemoveAt(initialSections, i + 1) = prevSections

(***************************************************************************)
(* C6: the id minted by a successful Add-Section-After, and the key built  *)
(* from it, differ from every id and key already in the list.              *)
(***************************************************************************)
C6_MintedIdFresh ==
  lastOp.op = "add" =>
    /\ lastOp.text \notin IdsOfList(prevRendered)
    /\ \A i \in 1..Len(prevRendered) : prevRendered[i].key # "layout-" \o lastOp.text

(***************************************************************************)
(* C7: Reorder stores newOrder verbatim, and no other Store transition     *)
(* changes the relative order of the top-level elements that survive it.   *)
(***************************************************************************)
\* the part of C7 about Reorder itself: the list is newOrder, element for element
C7_ReorderVerbatim == lastOp.op = "reorder" => initialSections = lastOp.list

\* what tells one top-level element from another across a transition
Identity(e) ==
  <<e.key, e.type, IF PreOrderIds(e) = <<>> THEN Undefined ELSE Head(PreOrderIds(e))>>

IdentityList(list) == [i \in 1..Len(list) |-> Identity(list[i])]

\* where an element first stands in a list
FirstPosition(ids, x) ==
  CHOOSE i \in 1..Len(ids) : ids[i] = x /\ \A j \in 1..(i - 1) : ids[j] # x

\* any two elements that are in both lists stand in the same order in both
SameRelativeOrder(before, after) ==
  LET b == IdentityList(before)
      a == IdentityList(after)
      both == {b[i] : i \in 1..Len(b)} \cap {a[i] : i \in 1..Len(a)}
  IN \A x, y \in both :
       (FirstPosition(b, x) < FirstPosition(b, y))
         <=> (FirstPosition(a, x) < FirstPosition(a, y))

\* C7: Reorder is verbatim, and commit, add and delete keep the relative order
\* of the elements that are in the list before and after
C7_ReorderPassThrough ==
  /\ C7_ReorderVerbatim
  /\ lastOp.op \in {"commit", "add", "add-miss", "delete"} =>
       SameRelativeOrder(prevSections, initialSections)

(***************************************************************************)
(* C8: the reorder message lists, for each element of newOrder in order,   *)
(* the key without its "layout-" prefix when the key begins with it, else  *)
(* the first id in pre-order of the element when there is one, else        *)
(* "unknown".                                                              *)
(***************************************************************************)
WrapperPrefix == "layout-"

ExpectedSectionId(e) ==
  IF e.key # Null /\ Len(e.key) >= Len(WrapperPrefix)
     /\ \A k \in 1..Len(WrapperPrefix) : SubSeq(e.key, k, k) = SubSeq(WrapperPrefix, k, k)
  THEN SubSeq(e.key, Len(WrapperPrefix) + 1, Len(e.key))
  ELSE IF PreOrderIds(e) # <<>> THEN Head(PreOrderIds(e))
  ELSE "unknown"

\* C8: the last posted message carries the expected id of every element of
\* newOrder, in order
C8_ReorderSectionIds ==
  lastOp.op = "reorder" =>
    LET msg == posted[Len(posted)] IN
    /\ msg.type = "commit-section-reorder"
    /\ Len(msg.sectionIds) = Len(lastOp.list)
    /\ \A i \in 1..Len(lastOp.list) : msg.sectionIds[i] = ExpectedSectionId(lastOp.list[i])

\* a reorder whose list holds a keyed wrapper without id, a wrapper whose key
\* and inner id differ, and a keyless section
C8_Witness ==
  /\ lastOp.op = "reorder"
  /\ lastOp.list = <<KeyedNoId, SplitSection, BareSection>>
  /\ posted[Len(posted)].sectionIds = <<"section-7", "split", "bare">>

(***************************************************************************)
(* C9: in the output of deepCloneWithProps every custom component carries  *)
(* every injected capability key, no host element or Fragment gains one,   *)
(* and type, id, other props and children (count, order, leaves) are the   *)
(* input's at every depth.                                                 *)
(***************************************************************************)
RECURSIVE InjectedAs(_, _, _)
InjectedAs(in, out, bundle) ==
  IF ~isValidElement(in) THEN out = in
  ELSE /\ out.type = in.type
       /\ out.id = in.id
       /\ IF in.type \in HostTypes \cup {"Fragment"}
          THEN out.props = in.props
          ELSE /\ InjectedKeys \subseteq DOMAIN out.props
               /\ \A k \in InjectedKeys : out.props[k] = bundle[k]
               /\ \A k \in DOMAIN in.props \ InjectedKeys :
                    k \in DOMAIN out.props /\ out.props[k] = in.props[k]
               /\ DOMAIN out.props \subseteq DOMAIN in.props \cup InjectedKeys
       /\ Len(out.children) = Len(in.children)
       /\ \A i \in 1..Len(in.children) :
            i <= Len(out.children) /\ InjectedAs(in.children[i], out.children[i], bundle)

\* C9: the output of deepCloneWithProps is the input with the bundle added to
\* the custom components and nothing else changed
C9_InjectionRespectsKind ==
  injPc = "done" => InjectedAs(injNode, injOut, injProps)

(***************************************************************************)
(* C10: a load that resolves after teardown changes neither the list nor   *)
(* the loading flag and establishes no watcher subscription.               *)
(***************************************************************************)
C10_CancelledLoadDiscarded ==
  /\ (lastOp.op = "load" /\ cancelled) =>
       /\ initialSections = prevSections
       /\ loadingSections
       /\ cleanup = "null"
  /\ (cancelled /\ loadingSections) =>
       /\ initialSections = <<>>
       /\ cleanup = "null"
       /\ cleanupCalls = 0

\* the load resolved with a non-empty list after the teardown, in dev mode
C10_Witness ==
  /\ lastOp.op = "load"
  /\ cancelled
  /\ dev
  /\ Len(lastOp.list) > 0
  /\ pc = "done"

(***************************************************************************)
(* C11: a watcher push delivered while the component is mounted makes the  *)
(* list exactly the pushed list, whatever local changes came before; until *)
(* the next transition the list is the most recent push.                   *)
(***************************************************************************)
C11_PushReplacesList ==
  (lastOp.op = "push" /\ ~cancelled) => initialSections = lastOp.list

\* a push that discards a list no loader or watcher produced
C11_Witness ==
  /\ lastOp.op = "push"
  /\ ~cancelled
  /\ prevSections \notin LoaderLists \cup {<<>>}
  /\ initialSections = lastOp.list
  /\ initialSections # prevSections

(***************************************************************************)
(* C12: every Reorder hands the host exactly one commit-section-reorder    *)
(* message, every Delete(id) exactly one commit-section-delete message     *)
(* carrying id, and no other transition (commit, add, load, watcher push,  *)
(* teardown, render) hands the host anything.                              *)
(***************************************************************************)
C12_HostNotifications ==
  [][ LET op == IF nops' # nops THEN lastOp'.op ELSE "none" IN
      /\ op = "reorder" =>
           /\ Len(posted') = Len(posted) + 1
           /\ SubSeq(posted', 1, Len(posted)) = posted
           /\ posted'[Len(posted')].type = "commit-section-reorder"
           /\ DOMAIN posted'[Len(posted')] = {"type", "sectionIds"}
      /\ op = "delete" =>
           posted' = Append(posted,
                       [type |-> "commit-section-delete", sectionId |-> lastOp'.id])
      /\ op \notin {"reorder", "delete"} => posted' = posted ]_vars

\* a reorder and a delete have each handed the host their one message
C12_Witness ==
  /\ lastOp.op = "delete"
  /\ Len(posted) = 2
  /\ posted[1].type = "commit-section-reorder"
  /\ posted[2] = [type |-> "commit-section-delete", sectionId |-> lastOp.id]

(***************************************************************************)
(* C13: Add-Section-After(id) with an id that no top-level element of the  *)
(* Store's list contains leaves the list unchanged, emits one diagnostic   *)
(* and hands the host nothing.                                             *)
(***************************************************************************)
C13_AddAbsentNoOp ==
  [][ (/\ nops' # nops
       /\ lastOp'.op \in {"add", "add-miss"}
       /\ lastOp'.id \notin IdsOfList(initialSections))
      => /\ initialSections' = initialSections
         /\ warnings' = Append(warnings, "Could not find section with id:")
         /\ posted' = posted ]_vars

\* C13: the same, for the adds that find nothing in the list of the last render
C13_AddMissNoOp ==
  [][ (nops' # nops /\ lastOp'.op = "add-miss")
      => /\ initialSections' = initialSections
         /\ warnings' = Append(warnings, "Could not find section with id:")
         /\ posted' = posted ]_vars

(***************************************************************************)
(* C14: Delete(id) with an id that no node of the Store's list carries     *)
(* leaves the list unchanged and hands the host no delete message.         *)
(***************************************************************************)
C14_DeleteAbsentSilent ==
  [][ (/\ nops' # nops
       /\ lastOp'.op = "delete"
       /\ lastOp'.id \notin IdsOfList(initialSections))
      => /\ initialSections' = initialSections
         /\ posted' = posted ]_vars

\* C14: the part about the list alone
C14_DeleteAbsentKeepsList ==
  (lastOp.op = "delete" /\ lastOp.id \notin IdsOfList(prevSections))
    => initialSections = prevSections

(***************************************************************************)
(* C15: Commit-Text(id, text) updates the list whether or not the editing  *)
(* context is present; when it is present the journal receives exactly one *)
(* record {action: "add", sectionId: id, content: text}, when it is absent *)
(* the journal receives nothing; no other transition writes to the journal.*)
(***************************************************************************)
C15_CommitIndependentOfJournal ==
  [][ LET op == IF nops' # nops THEN lastOp'.op ELSE "none"
          id == lastOp'.id
          text == lastOp'.text
      IN
      /\ op = "commit" =>
           /\ id \in IdsOfList(initialSections) =>
                /\ \A i \in 1..Len(initialSections') :
                     ContentOf(Shape(initialSections'[i]), id) \subseteq
                       {<<ParagraphOf(text)>>}
                /\ \E i \in 1..Len(initialSections') :
                     ContentOf(Shape(initialSections'[i]), id) # {}
           /\ Len(initialSections') = Len(initialSections)
           /\ editing =>
                journal' = Append(journal,
                             [action |-> "add", sectionId |-> id, content |-> text])
           /\ ~editing => journal' = journal
      /\ op # "commit" => journal' = journal ]_vars

\* a commit without an editing context has replaced the content of a section
C15_Witness ==
  /\ lastOp.op = "commit"
  /\ ~editing
  /\ journal = <<>>
  /\ lastOp.id \in IdsOfList(prevSections)
  /\ \E i \in 1..Len(initialSections) :
       ContentOf(Shape(initialSections[i]), lastOp.id) = {<<ParagraphOf(lastOp.text)>>}
  /\ initialSections # prevSections

(***************************************************************************)
(* C16: for every displayed top-level element whose first id in pre-order  *)
(* (its own, or a descendant's at any depth, whatever the number of        *)
(* children) exists, the id DraggableSection publishes in the context and  *)
(* hands to onDelete is that id.                                           *)
(***************************************************************************)
C16_ContextIdIsExtractId ==
  HandlersMounted =>
    \A i \in 1..Len(rendered) :
      PreOrderIds(rendered[i]) # <<>> =>
        DraggableSectionId(rendered[i]) = Head(PreOrderIds(rendered[i]))

\* C16: the same for the elements that carry the id themselves or on their
\* only child
C16_ContextIdWhenShallow ==
  HandlersMounted =>
    \A i \in 1..Len(rendered) :
      LET e == rendered[i] IN
      (\/ TruthyStr(e.id)
       \/ /\ ~e.arr
          /\ Len(e.children) = 1
          /\ isValidElement(e.children[1])
          /\ TruthyStr(e.children[1].id))
        => DraggableSectionId(e) = Head(PreOrderIds(e))

(***************************************************************************)
(* C17: invoking the context's onDelete of a displayed top-level element   *)
(* calls the Store's delete once with the id DraggableSection resolved     *)
(* when that id is non-empty (one delete message with that id, the owners  *)
(* of the id removed); when no id was resolved the list and the messages   *)
(* handed to the host stay as they are.                                    *)
(***************************************************************************)
C17_OnDeleteGuarded ==
  [][ \A i \in 1..Len(rendered) :
        LET e == rendered[i]
            id == DraggableSectionId(e)
        IN handleDelete(e) =>
             IF id \notin {Undefined, Null, ""}
             THEN /\ lastOp'.op = "delete"
                  /\ lastOp'.id = id
                  /\ posted' = Append(posted,
                                 [type |-> "commit-section-delete", sectionId |-> id])
                  /\ initialSections' =
                       SelectSeq(initialSections, LAMBDA s : id \notin IdsOfNode(s))
             ELSE /\ initialSections' = initialSections
                  /\ posted' = posted
                  /\ journal' = journal ]_vars

\* onDelete of an element that has an id three levels down and none resolved,
\* after a delete that went through
C17_Witness ==
  /\ lastOp.op = "onDelete-skip"
  /\ PreOrderIds(lastOp.list[1]) # <<>>
  /\ DraggableSectionId(lastOp.list[1]) = Undefined
  /\ initialSections = prevSections
  /\ Len(posted) = 1
  /\ posted[1].type = "commit-section-delete"

(***************************************************************************)
(* C18: in a list where no id is carried by more than one node, for every  *)
(* id of the list hasSectionId is true for exactly one top-level element;  *)
(* and hasSectionId(element, id) is true iff the element or a descendant   *)
(* at any depth carries the id.                                            *)
(***************************************************************************)
C18_ContainsIdExact ==
  /\ \A i \in 1..Len(initialSections) :
       {id \in IdsOfList(initialSections) \cup {AbsentId} :
          hasSectionId(initialSections[i], id)} = IdsOfNode(initialSections[i])
  /\ C4_UniqueIds =>
       \A id \in IdsOfList(initialSections) :
         Cardinality({i \in 1..Len(initialSections) :
                        hasSectionId(initialSections[i], id)}) = 1

\* a list with unique ids, rebuilt by a commit, where an id sits three levels
\* below its top-level element as the second of two sibling sections
C18_Witness ==
  /\ lastOp.op = "commit"
  /\ C4_UniqueIds
  /\ Len(initialSections) = 3
  /\ initialSections[1].id = Undefined
  /\ hasSectionId(initialSections[1], "right")
  /\ ~hasSectionId(initialSections[2], "right")
  /\ Occurrences(initialSections[1], "right") = 1

(***************************************************************************)
(* C19: no transition is lost to a stale snapshot: after every             *)
(* Add-Section-After the list is the Store's list as the earlier           *)
(* transitions (delete, commit, watcher push, reorder, add) left it, with  *)
(* the one new placeholder added; an add that finds nothing leaves it as   *)
(* it was.                                                                 *)
(***************************************************************************)
C19_NoLostUpdate ==
  /\ lastOp.op = "add" =>
       \E j \in 1..Len(initialSections) :
         /\ IsPlaceholder(initialSections[j], lastOp.text)
         /\ RemoveAt(initialSections, j) = prevSections
  /\ lastOp.op = "add-miss" => initialSections = prevSections

(***************************************************************************)
(* C20: a watcher push delivered after the teardown leaves the list as it  *)
(* was; the watcher's teardown function has been invoked once after the    *)
(* teardown if the subscription had been established before it, and never  *)
(* otherwise.                                                              *)
(***************************************************************************)
C20_FrozenAfterTeardown ==
  /\ (lastOp.op = "push" /\ cancelled) => initialSections = prevSections
  /\ cleanupCalls = IF cancelled /\ cleanup = "watcher" THEN 1 ELSE 0

\* a push with a different list arrives after the teardown of an established
\* subscription
C20_Witness ==
  /\ lastOp.op = "push"
  /\ cancelled
  /\ cleanup = "watcher"
  /\ cleanupCalls = 1
  /\ lastOp.list # initialSections
  /\ initialSections # <<>>

(***************************************************************************)
(* C21: a key press in a displayed SectionInput calls onCommit(id, value), *)
(* with the value as typed, only when the key is Enter without Shift and   *)
(* the value holds a character that is not whitespace; and after a         *)
(* Commit-Text(id, text) no SectionInput with that id is left in the list  *)
(* or on screen, so that input cannot commit again.                        *)
(***************************************************************************)
C21_PlaceholderCommitsOnce ==
  [][ /\ \A input \in SectionInputsIn(rendered), key \in Keys, shiftKey \in BOOLEAN,
            value \in InputValues :
          handleKeyDown(input, key, shiftKey, value) =>
            IF /\ key = "Enter"
               /\ ~shiftKey
               /\ \E k \in 1..Len(value) : SubSeq(value, k, k) \notin {" ", "\t", "\n"}
            THEN lastOp' = Op("commit", input.id, value, <<>>)
            ELSE /\ lastOp'.op # "commit"
                 /\ initialSections' = initialSections
                 /\ journal' = journal
                 /\ warnings' = warnings
                 /\ posted' = posted
      /\ (nops' # nops /\ lastOp'.op = "commit") =>
           \A input \in SectionInputsIn(initialSections') \cup SectionInputsIn(rendered') :
             input.id # lastOp'.id ]_vars

\* Enter in a placeholder made by an add has committed the untrimmed value and
\* the input is gone
C21_Witness ==
  /\ lastOp = Op("commit", MintId(StartClock), " hello ", <<>>)
  /\ \E input \in SectionInputsIn(prevSections) : input.id = lastOp.id
  /\ \A input \in SectionInputsIn(initialSections) \cup SectionInputsIn(rendered) :
       input.id # lastOp.id
  /\ \E i \in 1..Len(initialSections) :
       ContentOf(Shape(initialSections[i]), lastOp.id) = {<<ParagraphOf(" hello ")>>}

====
